---------------------------- MODULE Spec2Model ----------------------------
(* Model of src/autograde.py: collection of homework submissions          *)
(* (notebooks, zip/7z archives, nested batch archives) into a             *)
(* per-student directory tree, followed by the feedback loop of main.     *)
(*                                                                        *)
(* Strings (file names, paths) are sequences of tokens.  A token is one   *)
(* special character ("/", ".", "_", " "), one digit, or an alphabetic    *)
(* word; the string a sequence stands for is the concatenation of its     *)
(* tokens.  Every character class used by the code ('/', '.', '_',        *)
(* [0-9], [^_]) contains a token either entirely or not at all, so the    *)
(* operations below act on tokens exactly as the code acts on characters. *)
EXTENDS Integers, Sequences, FiniteSets, TLC

VARIABLES
    arg,        \* argument of the function under test (function specs)
    ret,        \* its return value
    argv,       \* args.inputfiles of main
    i,          \* position of main's loop over args.inputfiles
    stack,      \* call stack below main: collect / extract_files frames
    exc,        \* exception in flight ("none" when there is none)
    scratch,    \* names of the temporary directories that exist
    tree,       \* files below the submission root: path -> content
    dirs,       \* directories below the submission root
    log,        \* logging output, in order
    found,      \* value returned by collect for each input of main
    pc,         \* position of main
    run,        \* number of the invocation of main (1 or 2)
    first,      \* outcome of the first invocation, kept for comparison
    autograded, \* list returned by autograde()
    html,       \* students whose feedback html exists
    k,          \* position of main's loop over autograded
    reports,    \* main's counter of reports
    upload,     \* <student>.html files in the output directory
    noop,       \* args.noop
    api         \* calls made to the nbgrader API for feedback, in order

vars == <<arg, ret, argv, i, stack, exc, scratch, tree, dirs, log, found,
          pc, run, first, autograded, html, k, reports, upload, noop, api>>

-----------------------------------------------------------------------------
(* Bounds *)

MaxDigits == 2      \* digits in a student / group number
MaxSegs == 3        \* path segments of an archive member name
MaxListing == 2     \* members of an archive in the extraction spec
MaxMembers == 3     \* members of a submission archive
MaxInputs == 2      \* input files on the command line

-----------------------------------------------------------------------------
(* Strings *)

Digit == {"0", "1", "7"}
Word == {"h", "Gruppe", "Group", "g", "a", "b", "x", "MACOSX", "data", "sub",
         "sol", "hw", "batch", "readme", "input", "ipynb", "zip", "z7", "txt",
         "csv", "html", "tmp", "tmp1", "tmp2", "tmp3", "tmp4", "tmp5", "tmp6",
         "tmp7", "tmp8", "submitted",
         "feedback", "upload", "group"}
Token == Digit \cup Word \cup {"/", ".", "_", " "}

Max(S) == CHOOSE n \in S : \A m \in S : m <= n

\* str.rfind: the last position of token t in s, 0 when absent
RFind(s, t) == LET P == {j \in 1..Len(s) : s[j] = t}
               IN IF P = {} THEN 0 ELSE Max(P)

StartsWith(s, p) == Len(s) >= Len(p) /\ SubSeq(s, 1, Len(p)) = p

\* str.rstrip('/')
RECURSIVE RStripSlash(_)
RStripSlash(s) == IF s # <<>> /\ s[Len(s)] = "/"
                  THEN RStripSlash(SubSeq(s, 1, Len(s) - 1)) ELSE s

\* os.path.basename
Basename(p) == SubSeq(p, RFind(p, "/") + 1, Len(p))

\* os.path.dirname
Dirname(p) == LET head == SubSeq(p, 1, RFind(p, "/"))
              IN IF head # <<>> /\ \E j \in 1..Len(head) : head[j] # "/"
                 THEN RStripSlash(head) ELSE head

\* os.path.splitext(p)[1]
SplitExt(p) == LET sepIndex == RFind(p, "/")
                   dotIndex == RFind(p, ".")
               IN IF dotIndex > sepIndex
                     /\ \E j \in (sepIndex + 1)..(dotIndex - 1) : p[j] # "."
                  THEN SubSeq(p, dotIndex, Len(p)) ELSE <<>>

\* os.path.join(a, b)
Join(a, b) == IF b # <<>> /\ b[1] = "/" THEN b
              ELSE IF a = <<>> \/ a[Len(a)] = "/" THEN a \o b
              ELSE a \o <<"/">> \o b

EXT_IPYNB == <<".", "ipynb">>
EXT_ZIP == <<".", "zip">>
EXT_7Z == <<".", "z7">>      \* stands for '.7z'

-----------------------------------------------------------------------------
(* Regular expressions of collect: a pattern is a sequence of elements,   *)
(* each a character class with a greedy repetition range.                 *)

El(cls, lo, many) == [cls |-> cls, min |-> lo, many |-> many]
One(cls) == El(cls, 1, FALSE)        \* c
Opt(cls) == El(cls, 0, FALSE)        \* c?
Plus(cls) == El(cls, 1, TRUE)        \* c+
Star(cls) == El(cls, 0, TRUE)        \* c*

pattern_student == << One({"h"}), Plus(Digit), One({"_"}),
                      Plus(Token \ {"_"}), One({"_"}),
                      Plus(Token \ {"_"}), One({"_"}),
                      Plus(Token) >>

pattern_group == << One({"Gruppe", "Group"}), One({" "}),
                    Plus(Digit), One({"_"}),
                    Star(Token \ {"_"}), Opt({"_"}),
                    Star(Token \ {"_"}), One({"_"}),
                    Plus(Token) >>

\* re.match(pattern, text): anchored at the start, backtracking, greedy.
\* Returns the length matched by every element in the first match found:
\* element n first takes as many tokens as it can (at most hi) and gives
\* them back one by one while the rest of the pattern does not match.
RECURSIVE ReMatchFrom(_, _, _), ReTry(_, _, _, _)
ReTry(pat, n, s, m) ==
    IF m < pat[n].min THEN [ok |-> FALSE, lens |-> <<>>]
    ELSE LET r == ReMatchFrom(pat, n + 1, SubSeq(s, m + 1, Len(s)))
         IN IF r.ok THEN [ok |-> TRUE, lens |-> <<m>> \o r.lens]
            ELSE ReTry(pat, n, s, m - 1)

\* the longest prefix of s in the class cls, at most hi long
RECURSIVE Span(_, _, _)
Span(s, cls, hi) == IF hi = 0 \/ s = <<>> \/ Head(s) \notin cls THEN 0
                    ELSE 1 + Span(Tail(s), cls, hi - 1)

ReMatchFrom(pat, n, s) ==
    IF n > Len(pat) THEN [ok |-> TRUE, lens |-> <<>>]
    ELSE ReTry(pat, n, s, Span(s, pat[n].cls, IF pat[n].many THEN Len(s) ELSE 1))

\* the text captured by element n of a successful match
RECURSIVE SumTo(_, _)
SumTo(lens, n) == IF n = 0 THEN 0 ELSE lens[n] + SumTo(lens, n - 1)
Group(s, lens, n) == SubSeq(s, SumTo(lens, n - 1) + 1, SumTo(lens, n))

\* class Re: match() keeps the result of the last attempt in last_match
ReMatch(pat, typeEl, numberEl, text) ==
    LET m == ReMatchFrom(pat, 1, text)
    IN IF m.ok THEN [ok |-> TRUE,
                     type |-> Group(text, m.lens, typeEl),
                     number |-> Group(text, m.lens, numberEl)]
       ELSE [ok |-> FALSE, type |-> <<>>, number |-> <<>>]

\* gre.match(pattern_student, basename) or gre.match(pattern_group, basename)
LastMatch(basename) ==
    LET s == ReMatch(pattern_student, 1, 2, basename)
    IN IF s.ok THEN s ELSE ReMatch(pattern_group, 1, 3, basename)

target == <<"submitted">>          \* args.submissiondir
assignment == <<"hw">>             \* args.assignment
notebook_filename == <<"hw", ".", "ipynb">>
datadir == <<"data">>
NoSubmission == [type |-> "none", number |-> <<>>, dir |-> <<>>]

\* str(int(number)): the number without its leading zeros
RECURSIVE StudentNumber_int(_)
StudentNumber_int(number) ==
    IF Len(number) > 1 /\ Head(number) = "0" THEN StudentNumber_int(Tail(number))
    ELSE number

\* submission['number'] for a match of type 'h'
StudentNumber(number) == number

\* submission['number'] for a group match
GroupNumber(number) == <<"group">> \o number

\* the patterns tried on the whole path instead of the basename
Classify_path(inputfile) ==
    LET m == LastMatch(inputfile)
        number == IF m.type = <<"h">> THEN StudentNumber(m.number)
                  ELSE GroupNumber(m.number)
    IN IF ~m.ok THEN NoSubmission
       ELSE [type |-> IF m.type = <<"h">> THEN "student" ELSE "group",
             number |-> number,
             dir |-> Join(Join(target, number), assignment)]

\* collect: the submission built from a matching basename
Classify(inputfile) ==
    LET m == LastMatch(Basename(inputfile))
        number == IF m.type = <<"h">> THEN StudentNumber(m.number)
                  ELSE GroupNumber(m.number)
    IN IF ~m.ok THEN NoSubmission
       ELSE [type |-> IF m.type = <<"h">> THEN "student" ELSE "group",
             number |-> number,
             dir |-> Join(Join(target, number), assignment)]

-----------------------------------------------------------------------------
(* Files.  A node is a file or directory with its name; an archive file   *)
(* carries the listing of its members (namelist() / getnames()), each a   *)
(* node named by its member name.                                         *)

File(path, id) == [path |-> path, isdir |-> FALSE, id |-> id, listing |-> <<>>]
Dir(path) == [path |-> path, isdir |-> TRUE, id |-> "dir", listing |-> <<>>]
Archive(path, listing) ==
    [path |-> path, isdir |-> FALSE, id |-> "archive", listing |-> listing]

MACOSX_PREFIX == <<"_", "_", "MACOSX", "/">>

\* the condition of filter's comprehension for one item
Keep(item) == /\ ~StartsWith(item, MACOSX_PREFIX)
              /\ ~StartsWith(item, <<".">>)
              /\ ~StartsWith(Basename(item), <<".">>)

\* filter(items), on the member nodes of a listing
RECURSIVE filter(_)
filter(items) ==
    IF items = <<>> THEN <<>>
    ELSE IF Keep(Head(items).path) THEN <<Head(items)>> \o filter(Tail(items))
    ELSE filter(Tail(items))

\* [os.path.join(target, f) for f in extracted]
RECURSIVE JoinAll(_, _)
JoinAll(dir, items) ==
    IF items = <<>> THEN <<>>
    ELSE <<[Head(items) EXCEPT !.path = Join(dir, @)]>> \o JoinAll(dir, Tail(items))

\* extract_zip(inputfile, target): the exception raised ("none" if none) and
\* the returned paths, as nodes; the members written below target are the
\* same nodes (both libraries are taken to extract exactly the member named).  Opening a file that is not an archive of the format its
\* extension names raises the library's bad-file error.
extract_zip(inputfile, dir) ==
    LET ext == SplitExt(inputfile.path)
    IN IF ext \notin {EXT_ZIP, EXT_7Z}
       THEN [raised |-> "NotImplementedError", files |-> <<>>]
       ELSE IF inputfile.id # "archive"
       THEN [raised |-> "BadArchive", files |-> <<>>]
       ELSE [raised |-> "none", files |-> JoinAll(dir, filter(inputfile.listing))]

-----------------------------------------------------------------------------
(* State of main when nothing has run yet *)

NoRun == [argv |-> <<>>, found |-> <<>>, tree |-> {}, dirs |-> {},
          exc |-> "none", pc |-> "none"]

MainInit == /\ i = 1 /\ stack = <<>> /\ exc = "none" /\ scratch = {}
            /\ tree = {} /\ dirs = {} /\ log = <<>> /\ found = <<>>
            /\ run = 1 /\ first = NoRun
            /\ autograded = <<>> /\ html = {} /\ k = 1 /\ reports = 0
            /\ upload = {} /\ api = <<>>

mainVars == <<argv, i, stack, exc, scratch, tree, dirs, log, found, run,
              first, autograded, html, k, reports, upload, noop, api>>

-----------------------------------------------------------------------------
(* Specification of the classification in collect, on file names *)

RECURSIVE SeqsUpTo(_, _)
SeqsUpTo(S, n) == IF n = 0 THEN {<<>>}
                  ELSE LET R == SeqsUpTo(S, n - 1)
                       IN R \cup {<<x>> \o r : x \in S, r \in {q \in R : Len(q) = n - 1}}

DigitStrings == SeqsUpTo(Digit, MaxDigits)
Prefixes == {<<"h">>, <<"Gruppe", " ">>, <<"Group", " ">>, <<"Gruppe">>,
             <<"g">>, <<"hw">>}
NameSegs == {<<>>, <<"a">>, <<"a", " ", "7">>}
Rests == {<<>>, <<"hw", ".", "zip">>, <<"_", "sol", ".", "ipynb">>}
Folders == {<<>>, <<"/", "tmp", "/", "tmp1", "/">>}

\* <prefix><digits>_<firstname>_<lastname>_<rest>
Name3(p, d, f, l, r) == p \o d \o <<"_">> \o f \o <<"_">> \o l \o <<"_">> \o r
\* <prefix><digits>_<name>_<rest>
Name2(p, d, f, r) == p \o d \o <<"_">> \o f \o <<"_">> \o r

ClassifyInputs ==
    {dir \o Name3(p, d, f, l, r) : dir \in Folders, p \in Prefixes,
        d \in DigitStrings, f \in NameSegs, l \in NameSegs, r \in Rests}
    \cup {Name2(p, d, f, r) : p \in Prefixes, d \in DigitStrings,
                              f \in NameSegs, r \in Rests}

InitClassify == /\ arg \in ClassifyInputs /\ ret = NoSubmission /\ pc = "call"
                /\ argv = <<>> /\ noop = TRUE /\ MainInit

CallClassify == /\ pc = "call"
                /\ ret' = Classify(arg)
                /\ pc' = "return"
                /\ UNCHANGED <<arg, mainVars>>

NextClassify == CallClassify

SpecClassify == InitClassify /\ [][NextClassify]_vars

-----------------------------------------------------------------------------
(* Specification of extract_zip, on archive listings *)

Segments == {<<"a">>, <<".", "h">>, <<"_", "_", "MACOSX">>}

RECURSIVE MemberPaths(_)
MemberPaths(n) ==
    IF n = 1 THEN Segments
    ELSE MemberPaths(n - 1)
         \cup {p \o <<"/">> \o s : p \in MemberPaths(n - 1), s \in Segments}

\* member names: files, and directory entries with a trailing '/'
MemberNodes == {File(p, "f") : p \in MemberPaths(MaxSegs)}
               \cup {Dir(p \o <<"/">>) : p \in MemberPaths(MaxSegs)}

Listings == SeqsUpTo(MemberNodes, MaxListing)
TmpNames == <<"tmp1", "tmp2", "tmp3", "tmp4", "tmp5", "tmp6", "tmp7", "tmp8">>
\* the path of the n-th temporary directory
ScratchDir(n) == <<"/", "tmp", "/", TmpNames[n]>>
NoResult == [raised |-> "none", files |-> <<>>]

ExtractInputs ==
    {Archive(<<"batch">> \o e, l) : e \in {EXT_ZIP, EXT_7Z}, l \in Listings}
    \cup {File(<<"batch", ".", "zip">>, "text"), File(<<"batch", ".", "txt">>, "text")}

InitExtract == /\ arg \in ExtractInputs /\ ret = NoResult /\ pc = "call"
               /\ argv = <<>> /\ noop = TRUE /\ MainInit

CallExtract == /\ pc = "call"
               /\ ret' = extract_zip(arg, ScratchDir(1))
               /\ pc' = "return"
               /\ UNCHANGED <<arg, mainVars>>

NextExtract == CallExtract

SpecExtract == InitExtract /\ [][NextExtract]_vars

\* the '/'-separated segments of a path
RECURSIVE SegmentsOf(_)
SegmentsOf(p) ==
    LET P == {j \in 1..Len(p) : p[j] = "/"}
    IN IF P = {} THEN <<p>>
       ELSE LET j == CHOOSE m \in P : \A n \in P : m <= n
            IN <<SubSeq(p, 1, j - 1)>> \o SegmentsOf(SubSeq(p, j + 1, Len(p)))

-----------------------------------------------------------------------------
(* The submission tree and the placement of extract_files *)

Entry(level, msg) == [level |-> level, msg |-> msg]

\* the file at path p is (over)written with content id
WriteFile(t, p, id) == {e \in t : e.path # p} \cup {[path |-> p, id |-> id]}

\* the directories os.makedirs(p) has to find or create: p and its ancestors
Ancestors(p) == {SubSeq(p, 1, j - 1) : j \in {n \in 2..Len(p) : p[n] = "/"}}
                \cup {p}

\* os.makedirs(p) without exist_ok
makedirs_strict(p, ds) ==
    IF p \in ds THEN [raised |-> "FileExistsError", dirs |-> ds]
    ELSE [raised |-> "none", dirs |-> ds \cup Ancestors(p)]

\* os.makedirs(p, exist_ok=True)
makedirs(p, ds) == [raised |-> "none", dirs |-> ds \cup Ancestors(p)]

\* shutil.copytree(src, dst, dirs_exist_ok=True), src a directory below the
\* scratch directory whose content is the extracted nodes disk: every file
\* below src is written to the same relative path below dst
RECURSIVE copytree(_, _, _, _)
copytree(src, dst, disk, st) ==
    IF disk = <<>> THEN st
    ELSE LET g == Head(disk)
             below == StartsWith(g.path, src \o <<"/">>)
             rel == SubSeq(g.path, Len(src) + 2, Len(g.path))
             to == RStripSlash(Join(dst, rel))
             st1 == IF ~below THEN st
                    ELSE IF g.isdir
                    THEN [st EXCEPT !.dirs = @ \cup Ancestors(to)]
                    ELSE [st EXCEPT !.tree = WriteFile(@, to, g.id),
                                    !.dirs = @ \cup Ancestors(Dirname(to))]
         IN copytree(src, dst, Tail(disk), st1)

\* shutil.copyfile(src, dst)
copyfile(f, dst, st) ==
    IF f.isdir THEN [st EXCEPT !.raised = "IsADirectoryError"]
    ELSE [st EXCEPT !.tree = WriteFile(@, dst, f.id)]

\* the loop body without the test 'if not notebook': every notebook is copied
PlaceOne_every(f, disk, submission, st) ==
    LET fext == SplitExt(f.path)
    IN IF fext = EXT_IPYNB
       THEN copyfile(f, Join(submission.dir, notebook_filename),
                     [st EXCEPT !.notebook = f.path])
       ELSE IF f.isdir /\ Basename(Dirname(f.path)) = datadir
       THEN copytree(RStripSlash(f.path), Join(submission.dir, datadir), disk,
                     [st EXCEPT !.dirs = @ \cup Ancestors(Join(submission.dir, datadir))])
       ELSE st

\* the body of the loop 'for f in files' of extract_files for one f
PlaceOne(f, disk, submission, st) ==
    LET fext == SplitExt(f.path)
    IN IF fext = EXT_IPYNB
       THEN IF st.notebook = <<>>
            THEN copyfile(f, Join(submission.dir, notebook_filename),
                          [st EXCEPT !.notebook = f.path])
            ELSE [st EXCEPT !.log = Append(@,
                     Entry("fatal", "Multiple notebooks found in submission!"))]
       ELSE IF f.isdir /\ Basename(Dirname(f.path)) = datadir
       THEN copytree(RStripSlash(f.path), Join(submission.dir, datadir), disk,
                     [st EXCEPT !.dirs = @ \cup Ancestors(Join(submission.dir, datadir))])
       ELSE st

\* the loop 'for f in files' of extract_files, stopping at an exception
RECURSIVE PlaceLoop(_, _, _, _)
PlaceLoop(files, disk, submission, st) ==
    IF files = <<>> \/ st.raised # "none" THEN st
    ELSE PlaceLoop(Tail(files), disk, submission,
                   PlaceOne(Head(files), disk, submission, st))

\* extract_files after the file list is known: the loop and the final test
Place(files, submission, t, ds, lg) ==
    LET st0 == [notebook |-> <<>>, tree |-> t, dirs |-> ds, log |-> lg,
                raised |-> "none"]
        st == PlaceLoop(files, files, submission, st0)
    IN IF st.raised = "none" /\ st.notebook = <<>>
       THEN [st EXCEPT !.log = Append(@,
                Entry("fatal", "No notebook found in submission!"))]
       ELSE st

\* the file list of extract_files: the input itself or the archive's members
FilesOf(inputfile, tmp) ==
    LET ext == SplitExt(inputfile.path)
    IN IF ext = EXT_IPYNB THEN [raised |-> "none", files |-> <<inputfile>>]
       ELSE IF ext \in {EXT_ZIP, EXT_7Z} THEN extract_zip(inputfile, ScratchDir(tmp))
       ELSE [raised |-> "NotImplementedError", files |-> <<>>]

-----------------------------------------------------------------------------
(* main, collect and extract_files as a machine with an explicit call     *)
(* stack.  A frame of the stack is one activation of collect or           *)
(* extract_files; tmpdir is the temporary directory of the 'with' block   *)
(* the activation is inside (0 outside of it).                            *)

Frame(fn, inputfile, submission) ==
    [fn |-> fn, pc |-> "start", inputfile |-> inputfile, tmpdir |-> 0,
     files |-> <<>>, n |-> 1, submissions |-> <<>>, submission |-> submission]

Top == stack[Len(stack)]
Below == SubSeq(stack, 1, Len(stack) - 1)
Running(fn, at) == /\ pc = "collect" /\ exc = "none" /\ stack # <<>>
                   /\ Top.fn = fn /\ Top.pc = at

\* tempfile.TemporaryDirectory(): a directory that did not exist
NewTmp == CHOOSE t \in 1..Len(TmpNames) :
             t \notin scratch /\ \A u \in 1..(t - 1) : u \in scratch

\* the innermost collect returns submissions to its caller: the loop of an
\* enclosing collect (lines 151-154) or the loop of main (lines 238-245)
CollectReturns(submissions, lg) ==
    IF Len(stack) = 1
    THEN /\ stack' = <<>>
         /\ found' = Append(found, submissions)
         /\ log' = Append(lg, IF submissions # <<>>
                               THEN Entry("info", "Found %i submissions")
                               ELSE Entry("fatal", "No submissions found."))
         /\ i' = i + 1
    ELSE /\ stack' = SubSeq(stack, 1, Len(stack) - 2) \o
                     <<[stack[Len(stack) - 1] EXCEPT
                            !.submissions = @ \o submissions,
                            !.n = @ + 1, !.pc = "loop"]>>
         /\ log' = lg
         /\ UNCHANGED <<found, i>>

feedbackVars == <<autograded, html, k, reports, upload, api>>

\* main, lines 238-240: the next input is handed to collect
MainCollect ==
    /\ pc = "collect" /\ exc = "none" /\ stack = <<>> /\ i <= Len(argv)
    /\ stack' = <<Frame("collect", argv[i], NoSubmission)>>
    /\ UNCHANGED <<arg, ret, argv, i, exc, scratch, tree, dirs, log, found, pc,
                   run, first, noop, feedbackVars>>

\* collect, lines 123-140: a matched input gets its directory and is handed
\* to extract_files
CollectMatched ==
    /\ Running("collect", "start")
    /\ LET submission == Classify(Top.inputfile.path)
           made == makedirs(submission.dir, dirs)
       IN /\ submission # NoSubmission
          /\ IF made.raised # "none"
             THEN /\ exc' = made.raised
                  /\ UNCHANGED <<stack, dirs, log>>
             ELSE /\ dirs' = made.dirs
                  /\ log' = Append(log, Entry("info", "%s submission found: %s"))
                  /\ stack' = Below \o
                        <<[Top EXCEPT !.pc = "call", !.submission = submission],
                          Frame("extract_files", Top.inputfile, submission)>>
                  /\ exc' = exc
    /\ UNCHANGED <<arg, ret, argv, i, scratch, tree, found, pc, run, first,
                   noop, feedbackVars>>

\* collect, lines 145-147 and 155-157: an unmatched input that is no archive
CollectUnmatched ==
    /\ Running("collect", "start")
    /\ Classify(Top.inputfile.path) = NoSubmission
    /\ LET ext == SplitExt(Top.inputfile.path)
       IN /\ ext \notin {EXT_ZIP, EXT_7Z}
          /\ IF ext = EXT_IPYNB
             THEN /\ CollectReturns(<<>>,
                        Append(log, Entry("fatal", "Unmatched notebook found in %s")))
                  /\ exc' = exc
             ELSE /\ log' = Append(log,
                        Entry("fatal", "Don't know what to do with file: %s"))
                  /\ exc' = "NotImplementedError"
                  /\ UNCHANGED <<stack, found, i>>
    /\ UNCHANGED <<arg, ret, argv, scratch, tree, dirs, pc, run, first, noop,
                   feedbackVars>>

\* collect, lines 148-151: an unmatched archive is extracted to a new
\* temporary directory
CollectExtract ==
    /\ Running("collect", "start")
    /\ Classify(Top.inputfile.path) = NoSubmission
    /\ SplitExt(Top.inputfile.path) \in {EXT_ZIP, EXT_7Z}
    /\ LET tmp == NewTmp
           r == extract_zip(Top.inputfile, ScratchDir(tmp))
       IN /\ scratch' = scratch \cup {tmp}
          /\ log' = Append(log, Entry("info", "Extracting %s to %s"))
          /\ exc' = r.raised
          /\ stack' = Below \o <<[Top EXCEPT !.tmpdir = tmp, !.files = r.files,
                                             !.pc = "loop"]>>
    /\ UNCHANGED <<arg, ret, argv, i, tree, dirs, found, pc, run, first, noop,
                   feedbackVars>>

\* collect, lines 151-154: the next extracted member is collected
CollectRecurse ==
    /\ Running("collect", "loop")
    /\ Top.n <= Len(Top.files)
    /\ stack' = Below \o <<[Top EXCEPT !.pc = "call"],
                           Frame("collect", Top.files[Top.n], NoSubmission)>>
    /\ UNCHANGED <<arg, ret, argv, i, exc, scratch, tree, dirs, log, found, pc,
                   run, first, noop, feedbackVars>>

\* collect, lines 149-159: after the last member the temporary directory is
\* removed and the submissions are returned
CollectDone ==
    /\ Running("collect", "loop")
    /\ Top.n > Len(Top.files)
    /\ scratch' = scratch \ {Top.tmpdir}
    /\ CollectReturns(Top.submissions, log)
    /\ UNCHANGED <<arg, ret, argv, exc, tree, dirs, pc, run, first, noop,
                   feedbackVars>>

\* extract_files, line 78: the temporary directory is created
ExtractFilesEnter ==
    /\ Running("extract_files", "start")
    /\ scratch' = scratch \cup {NewTmp}
    /\ stack' = Below \o <<[Top EXCEPT !.tmpdir = NewTmp, !.pc = "body"]>>
    /\ UNCHANGED <<arg, ret, argv, i, exc, tree, dirs, log, found, pc, run,
                   first, noop, feedbackVars>>

\* extract_files, lines 79-105: the files are listed and placed
ExtractFilesBody ==
    /\ Running("extract_files", "body")
    /\ LET r == FilesOf(Top.inputfile, Top.tmpdir)
           st == Place(r.files, Top.submission, tree, dirs, log)
       IN IF r.raised # "none"
          THEN /\ exc' = r.raised
               /\ UNCHANGED <<stack, tree, dirs, log>>
          ELSE /\ exc' = st.raised
               /\ tree' = st.tree
               /\ dirs' = st.dirs
               /\ log' = st.log
               /\ stack' = Below \o <<[Top EXCEPT !.files = r.files,
                                                  !.pc = "exit"]>>
    /\ UNCHANGED <<arg, ret, argv, i, scratch, found, pc, run, first, noop,
                   feedbackVars>>

\* extract_files, lines 78 and 107: the 'with' block is left, the temporary
\* directory removed, and collect goes on after line 142
ExtractFilesExit ==
    /\ Running("extract_files", "exit")
    /\ scratch' = scratch \ {Top.tmpdir}
    /\ stack' = SubSeq(stack, 1, Len(stack) - 2) \o
                <<[stack[Len(stack) - 1] EXCEPT !.pc = "placed"]>>
    /\ UNCHANGED <<arg, ret, argv, i, exc, tree, dirs, log, found, pc, run,
                   first, noop, feedbackVars>>

\* collect, lines 144 and 159: the submission is appended and returned
CollectAppend ==
    /\ Running("collect", "placed")
    /\ CollectReturns(Top.submissions \o <<Top.submission>>, log)
    /\ UNCHANGED <<arg, ret, argv, exc, scratch, tree, dirs, pc, run, first,
                   noop, feedbackVars>>

\* no 'with' block: an exception leaves the directory behind
Cleanup_leak(frame, dirset) == dirset

\* what leaving a frame by an exception does to the temporary directories:
\* the 'with' block of the frame removes its directory
Cleanup(frame, dirset) == dirset \ {frame.tmpdir}

\* an exception leaves the innermost activation
Unwind ==
    /\ pc = "collect" /\ exc # "none" /\ stack # <<>>
    /\ scratch' = Cleanup(Top, scratch)
    /\ stack' = Below
    /\ UNCHANGED <<arg, ret, argv, i, exc, tree, dirs, log, found, pc, run,
                   first, noop, feedbackVars>>

\* an exception nothing catches ends main
Abort ==
    /\ pc \in {"collect", "feedback", "formgrade"} /\ exc # "none" /\ stack = <<>>
    /\ pc' = "aborted"
    /\ UNCHANGED <<arg, ret, argv, i, stack, exc, scratch, tree, dirs, log,
                   found, run, first, noop, feedbackVars>>

-----------------------------------------------------------------------------
(* main after the collection: autograde, formgrade, feedback *)

\* the students with a directory for the assignment below the submission root
Students(ds) ==
    LET pre == target \o <<"/">>
        post == <<"/">> \o assignment
    IN {SubSeq(d, Len(pre) + 1, Len(d) - Len(post)) :
          d \in {e \in ds : /\ Len(e) > Len(pre) + Len(post)
                            /\ StartsWith(e, pre)
                            /\ SubSeq(e, Len(e) - Len(post) + 1, Len(e)) = post
                            /\ \A j \in (Len(pre) + 1)..(Len(e) - Len(post)) :
                                  e[j] # "/"}}

Perms(S) == {q \in SeqsUpTo(S, Cardinality(S)) :
               Len(q) = Cardinality(S) /\ \A a, b \in 1..Len(q) : a # b => q[a] # q[b]}

RECURSIVE SelectSeq2(_, _)
SelectSeq2(q, S) == IF q = <<>> THEN <<>>
                    ELSE IF Head(q) \in S THEN <<Head(q)>> \o SelectSeq2(Tail(q), S)
                    ELSE SelectSeq2(Tail(q), S)

RECURSIVE Repeat(_, _)
Repeat(e, n) == IF n = 0 THEN <<>> ELSE <<e>> \o Repeat(e, n - 1)

\* main, lines 247-249: -n ends the program after the collection
Noop ==
    /\ pc = "collect" /\ exc = "none" /\ stack = <<>> /\ i > Len(argv)
    /\ noop
    /\ log' = Append(log, Entry("info", "-n was specified, exiting"))
    /\ pc' = "exit"
    /\ UNCHANGED <<arg, ret, argv, i, stack, exc, scratch, tree, dirs, found,
                   run, first, noop, feedbackVars>>

\* main, lines 251-252, and autograde: every submitted student is autograded
\* by the API, which reports success or failure and lists the autograded ones
Autograde ==
    /\ pc = "collect" /\ exc = "none" /\ stack = <<>> /\ i > Len(argv)
    /\ ~noop
    /\ \E order \in Perms(Students(dirs)), failed \in SUBSET Students(dirs) :
          /\ autograded' = SelectSeq2(order, Students(dirs) \ failed)
          /\ log' = log \o Repeat(Entry("fatal",
                                 "There were errors while autograding %s of %s"),
                                 Cardinality(failed))
                        \o <<Entry("info", "%d submissions have been autograded")>>
    /\ pc' = "formgrade"
    /\ UNCHANGED <<arg, ret, argv, i, stack, exc, scratch, tree, dirs, found,
                   run, first, noop, html, k, reports, upload, api>>

\* main, lines 254-257, and formgrade: wait for Enter (or Ctrl-c)
Formgrade ==
    /\ pc = "formgrade" /\ exc = "none"
    /\ log' = log \o <<Entry("warning", "Formgrading must be done manually"),
                       Entry("warning", "Run jupyter notebook and grade manually.")>>
    /\ \/ /\ pc' = "feedback" /\ reports' = 0 /\ k' = 1 /\ exc' = exc
       \/ /\ exc' = "KeyboardInterrupt" /\ UNCHANGED <<pc, reports, k>>
    /\ UNCHANGED <<arg, ret, argv, i, stack, scratch, tree, dirs, found, run,
                   first, noop, autograded, html, upload, api>>

None == [none |-> TRUE, value |-> 0]
Int1(n) == [none |-> FALSE, value |-> n]

\* collect_feedback: 1 when the html exists, None (no return) otherwise
collect_feedback(student, exists) == IF exists THEN Int1(1) ELSE None

\* main, lines 258-261: feedback of the next autograded student
Feedback ==
    /\ pc = "feedback" /\ exc = "none" /\ k <= Len(autograded)
    /\ LET student == autograded[k]
       IN /\ api' = api \o <<[op |-> "generate_feedback", student |-> student],
                             [op |-> "release_feedback", student |-> student]>>
          /\ \E exists \in BOOLEAN :
               LET r == collect_feedback(student, exists)
               IN /\ html' = IF exists THEN html \cup {student} ELSE html
                  /\ upload' = IF exists THEN upload \cup {student} ELSE upload
                  /\ log' = IF exists
                            THEN Append(log, Entry("info", "Collecting feedback from: %s"))
                            ELSE log
                  /\ IF r.none      \* reports += None
                     THEN exc' = "TypeError" /\ UNCHANGED <<reports, k>>
                     ELSE /\ reports' = reports + r.value
                          /\ k' = k + 1
                          /\ exc' = exc
    /\ UNCHANGED <<arg, ret, argv, i, stack, scratch, tree, dirs, found, pc,
                   run, first, noop, autograded>>

\* main, line 263
Report ==
    /\ pc = "feedback" /\ exc = "none" /\ k > Len(autograded)
    /\ log' = Append(log, Entry("info", "%d reports written to %s"))
    /\ pc' = "exit"
    /\ UNCHANGED <<arg, ret, argv, i, stack, exc, scratch, tree, dirs, found,
                   run, first, noop, feedbackVars>>

\* what a finished invocation leaves for comparison
Outcome == [argv |-> argv, found |-> found, tree |-> tree, dirs |-> dirs,
            exc |-> exc, pc |-> pc]

\* main is started a second time with the same arguments; the submission
\* tree is the one the first invocation left
Rerun ==
    /\ run = 1 /\ noop /\ pc \in {"exit", "aborted"}
    /\ first' = Outcome
    /\ run' = 2 /\ pc' = "collect" /\ i' = 1 /\ exc' = "none"
    /\ found' = <<>> /\ log' = <<>>
    /\ UNCHANGED <<arg, ret, argv, stack, scratch, tree, dirs, noop, feedbackVars>>

\* main is started a second time, on an empty submission root, with the
\* members of the first invocation's archive as its input files
RunMembers ==
    /\ run = 1 /\ noop /\ pc \in {"exit", "aborted"}
    /\ Len(argv) = 1 /\ argv[1].listing # <<>>
    /\ first' = Outcome
    /\ argv' = argv[1].listing
    /\ tree' = {} /\ dirs' = {}
    /\ run' = 2 /\ pc' = "collect" /\ i' = 1 /\ exc' = "none"
    /\ found' = <<>> /\ log' = <<>>
    /\ UNCHANGED <<arg, ret, stack, scratch, noop, feedbackVars>>

-----------------------------------------------------------------------------
(* The input files of the specification of main *)

Injective(q) == \A a, b \in 1..Len(q) : a # b => q[a] # q[b]

NameS1 == <<"h", "0", "1", "_", "a", "_", "b", "_", "hw">>
NameS1x == <<"h", "0", "1", "_", "x", "_", "b", "_", "sol">>
NameG7 == <<"Gruppe", " ", "7", "_", "_", "b", "_", "hw">>
NameS7 == <<"h", "7", "_", "a", "_", "b", "_", "hw">>

e_sol == File(<<"sol", ".", "ipynb">>, "n1")
e_b == File(<<"b", ".", "ipynb">>, "n2")
e_mac == File(MACOSX_PREFIX \o <<".", "_", "sol", ".", "ipynb">>, "m1")
e_dir == Dir(<<"data", "/">>)
e_csv == File(<<"data", "/", "input", ".", "csv">>, "c1")

\* member listings of zip submissions
InnerListings ==
    {l \in SeqsUpTo({e_sol, e_b, e_mac, e_dir, e_csv}, MaxMembers) :
        l # <<>> /\ Injective(l)}

\* member listings of 7z submissions: directories are listed without '/'
SevenZListings ==
    { <<e_sol, Dir(<<"data">>), e_csv>>,
      <<e_sol, Dir(<<"data">>), Dir(<<"data", "/", "sub">>),
        File(<<"data", "/", "sub", "/", "x", ".", "csv">>, "c2")>>,
      <<e_sol, e_b>>,
      <<Dir(<<"x", ".", "ipynb">>), e_sol>> }

Subs == {Archive(NameS1 \o EXT_ZIP, l) : l \in InnerListings}
        \cup {Archive(NameG7 \o EXT_7Z, l) : l \in SevenZListings}

junk == File(<<"readme", ".", "txt">>, "t1")
nbX == File(<<"sol", ".", "ipynb">>, "n4")
nbS1 == File(NameS1x \o EXT_IPYNB, "n3")
subG7 == Archive(NameG7 \o EXT_ZIP, <<File(<<"sol", ".", "ipynb">>, "n5")>>)
subS1x == Archive(NameS1x \o EXT_ZIP, <<File(<<"a", ".", "ipynb">>, "n6"), e_dir,
                    File(<<"data", "/", "x", ".", "csv">>, "c3")>>)
txtS1 == File(NameS1 \o <<".", "txt">>, "t2")
corruptS7 == File(NameS7 \o EXT_ZIP, "text")
corruptBatch == File(<<"batch", ".", "zip">>, "text")

\* a member name below a folder of the archive
In(folder, node) == [node EXCEPT !.path = folder \o <<"/">> \o @]

WrappedSubs == {Archive(NameS1 \o EXT_ZIP, l) :
                   l \in { <<e_sol>>, <<e_sol, e_b>>, <<e_csv, e_sol>>,
                           <<e_dir, e_csv>>, <<e_mac, e_sol, e_dir>> }}
Members == {subG7, subS1x, nbS1, junk, nbX, Dir(<<"sub", "/">>), corruptS7,
            In(<<"sub">>, subG7)}

Wrappers ==
    {Archive(<<"batch", ".", "zip">>, l) :
        l \in {<<a, b>> : a \in WrappedSubs, b \in Members}
              \cup {<<b, a>> : a \in WrappedSubs, b \in Members}}
    \cup {Archive(<<"batch", ".", "z7">>,
                  <<Archive(<<"a", ".", "zip">>, <<a, b>>), subG7>>) :
             a \in WrappedSubs, b \in {junk, subS1x, corruptS7}}

Inputs == Subs \cup Wrappers
          \cup {junk, nbX, nbS1, txtS1, corruptS7, corruptBatch, Dir(<<"sub">>)}
Partners == {subG7, subS1x, nbS1, junk}

Argvs == {<<a>> \o q : a \in Inputs, q \in SeqsUpTo(Partners, MaxInputs - 1)}
         \cup {q \o <<a>> : a \in Inputs, q \in SeqsUpTo(Partners, MaxInputs - 1)}

Init == /\ arg = <<>> /\ ret = <<>>
        /\ argv \in Argvs /\ noop \in BOOLEAN
        /\ pc = "collect" /\ MainInit

Next == \/ MainCollect \/ CollectMatched \/ CollectUnmatched \/ CollectExtract
        \/ CollectRecurse \/ CollectDone \/ ExtractFilesEnter
        \/ ExtractFilesBody \/ ExtractFilesExit \/ CollectAppend
        \/ Unwind \/ Abort \/ Noop \/ Autograde \/ Formgrade \/ Feedback
        \/ Report \/ Rerun \/ RunMembers

Spec == Init /\ [][Next]_vars

-----------------------------------------------------------------------------
(* Claims on the classification *)

Submission(type, number) ==
    [type |-> type, number |-> number,
     dir |-> target \o <<"/">> \o number \o <<"/">> \o assignment]

\* C8: a basename h<digits>_<firstname>_<lastname>_<rest> is classified as
\* 'student' with the digit string as written as its identity key; a basename
\* '(Gruppe|Group) <digits>_<first?>_<last?>_<rest>', also with an empty first
\* or last name, as 'group' with key 'group' + digits; the target directory
\* is target_root/identity_key/assignment.
C8_Classification ==
    pc = "return" =>
      \A dir \in Folders, d \in DigitStrings \ {<<>>}, f \in NameSegs,
         l \in NameSegs, r \in Rests \ {<<>>} :
        /\ (f # <<>> /\ l # <<>> /\ arg = dir \o Name3(<<"h">>, d, f, l, r))
              => ret = Submission("student", d)
        /\ \A g \in {"Gruppe", "Group"} :
              arg = dir \o Name3(<<g, " ">>, d, f, l, r)
                 => ret = Submission("group", <<"group">> \o d)

C8_Witness ==
    /\ pc = "return"
    /\ arg = Name3(<<"h">>, <<"0", "7">>, <<"a">>, <<"a", " ", "7">>,
                   <<"hw", ".", "zip">>)
    /\ ret.type = "student"
    /\ ret.number = <<"0", "7">>

-----------------------------------------------------------------------------
(* Claims on the extraction *)

\* the member name of a path returned by extract_zip
MemberName(dir, path) == SubSeq(path, Len(dir) + 2, Len(path))

HiddenSegment(p) ==
    \E j \in 1..Len(SegmentsOf(p)) : StartsWith(SegmentsOf(p)[j], <<".">>)

\* C2: no path returned by extract_zip starts with '__MACOSX/' or has a
\* '/'-separated segment that begins with '.', wherever the segment is and
\* whether or not the entry ends with '/'.
C2_NoMetadataExtracted ==
    \A j \in 1..Len(ret.files) :
        LET m == MemberName(ScratchDir(1), ret.files[j].path)
        IN ~StartsWith(m, MACOSX_PREFIX) /\ ~HiddenSegment(m)

-----------------------------------------------------------------------------
(* Claims on the collection *)

IsArchiveName(path) == SplitExt(path) \in {EXT_ZIP, EXT_7Z}
Unmatched(node) == Classify(node.path) = NoSubmission

RECURSIVE Count(_, _)
Count(lg, msg) == IF lg = <<>> THEN 0
                  ELSE (IF Head(lg).msg = msg THEN 1 ELSE 0) + Count(Tail(lg), msg)

RECURSIVE Flatten(_)
Flatten(q) == IF q = <<>> THEN <<>> ELSE Head(q) \o Flatten(Tail(q))

Numbers(q) == [j \in 1..Len(q) |-> q[j].number]

\* an extracted member of a batch archive that is neither a submission, a
\* notebook nor an archive is about to be dispatched by collect
StrayMember ==
    /\ Running("collect", "start")
    /\ Len(stack) >= 2
    /\ Unmatched(Top.inputfile)
    /\ SplitExt(Top.inputfile.path) \notin {EXT_IPYNB, EXT_ZIP, EXT_7Z}

\* C1: an unmatched member of a batch archive with an extension other than
\* .ipynb/.zip/.7z (also a directory entry) is logged as fatal and skipped:
\* no exception is left in flight, and the enclosing collect goes on with
\* the next member, keeping the submissions collected so far.
C1_StrayMemberSkipped ==
    [][StrayMember =>
         /\ exc' = "none"
         /\ Len(stack') = Len(stack) - 1
         /\ stack'[Len(stack')].n = stack[Len(stack) - 1].n + 1
         /\ stack'[Len(stack')].submissions = stack[Len(stack) - 1].submissions
         /\ log'[Len(log')].level = "fatal"]_vars

\* extract_files has placed the files of the submission on top of the stack
Placed == /\ pc = "collect" /\ exc = "none" /\ stack # <<>>
          /\ Top.fn = "extract_files" /\ Top.pc = "exit"

DataMembers(listing) ==
    {j \in 1..Len(listing) : /\ ~listing[j].isdir
                             /\ Len(SegmentsOf(listing[j].path)) = 2
                             /\ StartsWith(listing[j].path, <<"data", "/">>)
                             /\ Keep(listing[j].path)}

\* C3: after extract_files has finished on a matched .zip/.7z submission
\* with a member file data/<name>, the file <target_dir>/data/<name> exists,
\* whatever else the listing holds and also when there is no notebook.
C3_DataMerged ==
    (Placed /\ IsArchiveName(Top.inputfile.path)) =>
        \A j \in DataMembers(Top.inputfile.listing) :
            \E e \in tree :
                e.path = Top.submission.dir \o <<"/">> \o Top.inputfile.listing[j].path

OtherFatal == {"Unmatched notebook found in %s",
               "Don't know what to do with file: %s",
               "Multiple notebooks found in submission!",
               "No notebook found in submission!",
               "No submissions found.",
               "There were errors while autograding %s of %s"}

\* C4: when two inputs of one collection run have the same identity key,
\* a fatal event reporting the conflict is in the log.
C4_ConflictReported ==
    (\E a, b \in 1..Len(Flatten(found)) :
        a # b /\ Flatten(found)[a].number = Flatten(found)[b].number)
    => \E j \in 1..Len(log) : log[j].level = "fatal" /\ log[j].msg \notin OtherFatal

RECURSIVE Notebooks(_)
Notebooks(listing) ==
    IF listing = <<>> THEN <<>>
    ELSE IF SplitExt(Head(listing).path) = EXT_IPYNB
    THEN <<Head(listing)>> \o Notebooks(Tail(listing))
    ELSE Notebooks(Tail(listing))

MULTIPLE == "Multiple notebooks found in submission!"

\* the notebook files directly in a directory
NotebooksIn(t, dir) ==
    {e \in t : Dirname(e.path) = dir /\ SplitExt(e.path) = EXT_IPYNB}

\* extract_files is about to list and place a readable submission archive
PlacingArchive ==
    /\ Running("extract_files", "body")
    /\ IsArchiveName(Top.inputfile.path)
    /\ Top.inputfile.id = "archive"

\* what C5 says of the placement of the notebooks nbs
FirstNotebookPlaced(nbs) ==
    /\ exc' = "none"
    /\ Count(log', MULTIPLE) = Count(log, MULTIPLE) + Len(nbs) - 1
    /\ NotebooksIn(tree', Top.submission.dir) =
          {[path |-> Top.submission.dir \o <<"/">> \o notebook_filename,
            id |-> nbs[1].id]}

OneSubmissionReturned ==
    Running("collect", "placed") =>
        IF Len(stack) = 1
        THEN found' = Append(found, <<Top.submission>>)
        ELSE stack'[Len(stack')].submissions =
                Append(stack[Len(stack) - 1].submissions, Top.submission)

AllFiles(nbs) == \A j \in 1..Len(nbs) : ~nbs[j].isdir

Repeated == run = 2 /\ argv = first.argv

\* C6: collecting the same input a second time into the same tree ends as
\* the first time did (no error for an existing directory), returns
\* submissions with the same identity keys, creates no directory the
\* first run did not create, and leaves the tree as the first run left it.
C6_Idempotent ==
    Repeated =>
        /\ dirs = first.dirs
        /\ exc # "FileExistsError"
        /\ pc \in {"exit", "aborted"} =>
              /\ tree = first.tree
              /\ pc = first.pc /\ exc = first.exc
              /\ Numbers(Flatten(found)) = Numbers(Flatten(first.found))

C6_Witness ==
    /\ Repeated /\ pc = "exit" /\ Len(Flatten(found)) = 2
    /\ \E e \in tree : e.id = "c1"
    /\ \E e \in tree : e.id = "n1"

\* a submission archive that can be collected
ValidSubmissionArchive(node) ==
    /\ ~Unmatched(node) /\ IsArchiveName(node.path) /\ node.id = "archive"
    /\ \A j \in 1..Len(node.listing) :
          SplitExt(node.listing[j].path) = EXT_IPYNB => ~node.listing[j].isdir

\* the second invocation collected the two members B and C of the
\* unmatched archive A that the first invocation collected
MembersCollected ==
    /\ run = 2 /\ Len(first.argv) = 1 /\ argv = first.argv[1].listing
    /\ Unmatched(first.argv[1]) /\ IsArchiveName(first.argv[1].path)
    /\ Len(argv) = 2
    /\ \A j \in 1..2 : ValidSubmissionArchive(argv[j])
    /\ pc \in {"exit", "aborted"}

C9_ScratchScoped ==
    /\ scratch = {stack[j].tmpdir : j \in 1..Len(stack)} \ {0}
    /\ \A a, b \in 1..Len(stack) :
          (a # b /\ stack[a].tmpdir # 0) => stack[a].tmpdir # stack[b].tmpdir
    /\ stack = <<>> => scratch = {}

C9_Witness ==
    /\ exc # "none" /\ Len(stack) >= 2
    /\ Top.fn = "collect" /\ Top.pc = "call" /\ Top.tmpdir # 0
    /\ scratch = {stack[j].tmpdir : j \in 1..Len(stack)} \ {0}
    /\ Cardinality(scratch) = 2

\* C10: in the feedback loop every autograded student gets feedback
\* generated and released, the loop goes on to the next student, and the
\* count grows by one exactly when the student's html exists.
C10_FeedbackLoop ==
    [][(pc = "feedback" /\ exc = "none" /\ k <= Len(autograded)) =>
          /\ api' = api \o <<[op |-> "generate_feedback", student |-> autograded[k]],
                             [op |-> "release_feedback", student |-> autograded[k]]>>
          /\ exc' = "none" /\ pc' = "feedback" /\ k' = k + 1
          /\ reports' = reports + (IF autograded[k] \in html' THEN 1 ELSE 0)]_vars

=============================================================================
